---------------------------- MODULE Spec2Model ----------------------------
(***************************************************************************)
(* Model of the trajectory optimiser (campos.py, integrales.py, app.py):   *)
(* the field registry FIELDS and its registration handler, the field       *)
(* analysis of crear_campo (curl test, potential recovery, compilation and *)
(* validation at the origin), the trapezoidal line integral and the        *)
(* minimum search over the parameter sweep.                                *)
(*                                                                         *)
(* Numbers are exact rationals <<n, d>> (d > 0, lowest terms).  A floating *)
(* point result that is not a finite number is kept as a kind ("inf",      *)
(* "nan"); an evaluation that raises has kind "raise".                     *)
(*                                                                         *)
(* Symbolic expressions are sums  poly + atom : a polynomial in x and y    *)
(* with rational coefficients plus at most one non-polynomial term of x    *)
(* alone (atom), named by the text sympy prints for it.                    *)
(***************************************************************************)
EXTENDS Integers, Sequences, FiniteSets, TLC

VARIABLES
    pc,           \* where the operation under check stands
    FIELDS,       \* campos.FIELDS: display name -> field record
    mensaje,      \* the sidebar message of the last press of "Añadir campo"
    sobrescribe,  \* history: the last successful press wrote an existing key
    arg_F,        \* calcular_trabajo: the field record whose "np" is F_np
    arg_tray,     \* calcular_trabajo: the path that gives r and dr_dt
    arg_n,        \* calcular_trabajo: the sample count n
    W,            \* calcular_trabajo: what the call returned
    a_vals,       \* search_min: the sweep values
    W_vals,       \* search_min: the works collected so far
    idx_min,      \* search_min: np.argmin(W_vals), counted from 1
    a_opt,        \* search_min: a_vals[idx_min]
    W_opt,        \* search_min: W_vals[idx_min]
    g_pot,        \* potential recovery: the potential g the field derives from
    campo_pot     \* potential recovery: what crear_campo returned for grad g

vars_reg == <<FIELDS, mensaje, sobrescribe>>

vars_trabajo == <<arg_F, arg_tray, arg_n, W>>

vars_min == <<a_vals, W_vals, idx_min, a_opt, W_opt>>

vars_pot == <<g_pot, campo_pot>>

vars == <<pc, FIELDS, mensaje, sobrescribe, arg_F, arg_tray, arg_n, W,
          a_vals, W_vals, idx_min, a_opt, W_opt, g_pot, campo_pot>>

-----------------------------------------------------------------------------
(* Bounds of the model.                                                    *)

\* user-defined entries the registry may hold
MaxCampos == 2

\* the total degree of a known potential g(x, y)
MaxGrado == 2

\* the coefficients of a known potential lie in -MaxCoef..MaxCoef
MaxCoef == 1

\* the number of terms of a known potential
MaxTerminos == 3

\* the largest sample count n of a line integral
MaxN == 4

\* the largest number of sweep values of a minimum search
MaxBarrido == 4

-----------------------------------------------------------------------------
(* Exact rational arithmetic.                                              *)

Abs(n) == IF n < 0 THEN -n ELSE n

RECURSIVE Gcd(_, _)
Gcd(a, b) == IF b = 0 THEN a ELSE Gcd(b, a % b)

\* the rational n/d in lowest terms with a positive denominator (d # 0)
Frac(n, d) ==
    LET s == IF d < 0 THEN -1 ELSE 1
        g == Gcd(Abs(n), Abs(d))
    IN  <<(s * n) \div g, (s * d) \div g>>

RInt(n) == <<n, 1>>
RZero == <<0, 1>>
ROne == <<1, 1>>
RAdd(a, b) == Frac(a[1] * b[2] + b[1] * a[2], a[2] * b[2])
RNeg(a) == <<-a[1], a[2]>>
RSub(a, b) == RAdd(a, RNeg(b))
RMul(a, b) == Frac(a[1] * b[1], a[2] * b[2])
\* b # 0
RDiv(a, b) == Frac(a[1] * b[2], a[2] * b[1])
RLess(a, b) == a[1] * b[2] < b[1] * a[2]

-----------------------------------------------------------------------------
(* Polynomials in x and y: a function from the exponent pairs <<i, j>> of  *)
(* its monomials x^i y^j to their non-zero coefficients.  The zero         *)
(* polynomial is the empty function, so equal polynomials are equal values *)
(* (sympy's automatic collection of like terms).                           *)

PZero == <<>>

Coef(p, m) == IF m \in DOMAIN p THEN p[m] ELSE RZero

\* the polynomial of the coefficients c, a function of monomials: terms
\* with a zero coefficient are dropped
PMake(c) == [m \in {k \in DOMAIN c : c[k][1] # 0} |-> c[m]]

\* n * x^i * y^j
PMono(i, j, n) == PMake([m \in {<<i, j>>} |-> RInt(n)])

PAdd(p, q) ==
    PMake([m \in DOMAIN p \cup DOMAIN q |-> RAdd(Coef(p, m), Coef(q, m))])

PNeg(p) == [m \in DOMAIN p |-> RNeg(p[m])]

PSub(p, q) == PAdd(p, PNeg(q))

\* d/dx and d/dy, term by term
PDiffX(p) ==
    LET S == {<<m[1] - 1, m[2]>> : m \in {k \in DOMAIN p : k[1] > 0}}
    IN  PMake([m \in S |-> RMul(RInt(m[1] + 1), p[<<m[1] + 1, m[2]>>])])

PDiffY(p) ==
    LET S == {<<m[1], m[2] - 1>> : m \in {k \in DOMAIN p : k[2] > 0}}
    IN  PMake([m \in S |-> RMul(RInt(m[2] + 1), p[<<m[1], m[2] + 1>>])])

\* the antiderivative in x (in y) with no constant term, term by term
PIntX(p) ==
    LET S == {<<m[1] + 1, m[2]>> : m \in DOMAIN p}
    IN  PMake([m \in S |-> RDiv(p[<<m[1] - 1, m[2]>>], RInt(m[1]))])

PIntY(p) ==
    LET S == {<<m[1], m[2] + 1>> : m \in DOMAIN p}
    IN  PMake([m \in S |-> RDiv(p[<<m[1], m[2] - 1>>], RInt(m[2]))])

-----------------------------------------------------------------------------
(* Symbolic expressions  poly + atom.                                      *)

NoAtom == "none"

Expr(p, a) == [poly |-> p, atom |-> a]

ExprPoly(p) == Expr(p, NoAtom)

ExprZero == ExprPoly(PZero)

\* d/dx of a non-polynomial term, as sympy prints it
AtomDiffX(a) ==
    CASE a = "none"      -> "none"
      [] a = "1/x"       -> "-1/x**2"
      [] a = "log(x)"    -> "1/x"
      [] a = "1/(x - 1)" -> "-1/(x - 1)**2"
      [] a = "exp(x**2)" -> "2*x*exp(x**2)"

\* sp.integrate(atom, x): the antiderivative sympy returns
AtomIntX(a) ==
    CASE a = "none"      -> ExprZero
      [] a = "1/x"       -> Expr(PZero, "log(x)")
      [] a = "log(x)"    -> Expr(PMono(1, 0, -1), "x*log(x)")
      [] a = "1/(x - 1)" -> Expr(PZero, "log(x - 1)")
      [] a = "exp(x**2)" -> Expr(PZero, "sqrt(pi)*erfi(x)/2")

\* sp.diff(e, x): the atom is a term of x
diff_x(e) == Expr(PDiffX(e.poly), AtomDiffX(e.atom))

\* sp.diff(e, y): the atom does not depend on y
diff_y(e) == ExprPoly(PDiffY(e.poly))

\* e1 - e2 where e2 is a polynomial
ExprSub(e1, e2) == Expr(PSub(e1.poly, e2.poly), e1.atom)

\* e1 + e2 where e2 is a polynomial
ExprAdd(e1, e2) == Expr(PAdd(e1.poly, e2.poly), e1.atom)

\* sp.integrate(e, x)
integrate_x(e) == ExprAdd(AtomIntX(e.atom), ExprPoly(PIntX(e.poly)))

\* sp.integrate(e, y) of a polynomial e
integrate_y(e) == CASE e.atom = NoAtom -> ExprPoly(PIntY(e.poly))

\* sp.simplify: terms whose coefficient is zero vanish; a collected
\* polynomial is otherwise left as it is
simplify(e) == Expr(PMake(e.poly), e.atom)

\* whether the expression has x or y among its free symbols
DependsOnXY(e) ==
    \/ e.atom # NoAtom
    \/ \E m \in DOMAIN e.poly : m # <<0, 0>>

-----------------------------------------------------------------------------
(* Numeric values of the compiled (lambdify, "numpy") expressions.         *)

Finite(r) == [kind |-> "finite", val |-> r]
Inf == [kind |-> "inf", val |-> RZero]
NaN == [kind |-> "nan", val |-> RZero]
Raise == [kind |-> "raise", val |-> RZero]

IsFinite(v) == v.kind = "finite"

\* the compiled non-polynomial term called with the Python float x = 0.0
AtomOrigin(a) ==
    CASE a = "none"               -> Finite(RZero)
      [] a = "1/x"                -> Raise          \* ZeroDivisionError
      [] a = "log(x)"             -> Inf            \* numpy.log(0.0) = -inf
      [] a = "1/(x - 1)"          -> Finite(RInt(-1))
      [] a = "exp(x**2)"          -> Finite(ROne)
      [] a = "x*log(x)"           -> NaN            \* 0.0 * -inf
      [] a = "log(x - 1)"         -> NaN            \* numpy.log(-1.0)
      [] a = "sqrt(pi)*erfi(x)/2" -> Raise          \* NameError: erfi
      [] a = "-1/x**2"            -> Raise
      [] a = "-1/(x - 1)**2"      -> Finite(RInt(-1))
      [] a = "2*x*exp(x**2)"      -> Finite(RZero)

\* floating point sum: a raise wins, then nan, then inf
ValAdd(u, v) ==
    CASE u.kind = "raise" \/ v.kind = "raise" -> Raise
      [] OTHER ->
         CASE u.kind = "nan" \/ v.kind = "nan" -> NaN
           [] OTHER ->
              CASE u.kind = "inf" \/ v.kind = "inf" -> Inf
                [] OTHER -> Finite(RAdd(u.val, v.val))

\* P_l(0.0, 0.0): the compiled expression called at the origin
eval_origin(e) == ValAdd(Finite(Coef(e.poly, <<0, 0>>)), AtomOrigin(e.atom))

\* float(v) returns for every float, inf and nan included: only a call that
\* raised never gets here
float_ok(v) == v.kind # "raise"

-----------------------------------------------------------------------------
(* campos.py                                                               *)

None == <<>>
Some(f) == <<f>>

\* the curl with the wrong sign: dQ/dx + dP/dy
curl_2d_suma(PQ_sym) ==
    LET P == PQ_sym[1]
        Q == PQ_sym[2]
    IN  Expr(PAdd(diff_x(Q).poly, diff_y(P).poly), diff_x(Q).atom)

\* curl_2d: dQ/dx - dP/dy
curl_2d(PQ_sym) ==
    LET P == PQ_sym[1]
        Q == PQ_sym[2]
    IN  Expr(PSub(diff_x(Q).poly, diff_y(P).poly), diff_x(Q).atom)

\* lines 43-54: the potential expression, by integration of P in x and of
\* the residual in y.  Q is a polynomial here: a field with a non-polynomial
\* term in Q has a non-zero curl (AtomDiffX never returns "none" for one).
\* No expression of the model prints to more than 200 characters, so the
\* simplification of line 54, which keeps the value, is not taken.
\* the residual in y is never integrated: the potential is the integral of
\* P in x alone
f_pot_de_sin_resto(P_expr, Q_expr) == integrate_x(P_expr)

f_pot_de(P_expr, Q_expr) ==
    LET f_int_x == integrate_x(P_expr)
        df_dy == diff_y(f_int_x)
        resto == simplify(ExprSub(Q_expr, df_dy))
        C_y == integrate_y(resto)
    IN  ExprAdd(f_int_x, C_y)

\* lines 55-59: whether the compiled potential, called at the origin and
\* converted with float(), raises
potencial_raises(f_pot) == ~float_ok(eval_origin(f_pot))

\* the except branch forgets to reset potencial_fn, which line 56 has set
potencial_de_sin_reset(P_expr, Q_expr) == Some(f_pot_de(P_expr, Q_expr))

\* the try/except of lines 41-61: the compiled potential, None when a step
\* raised
potencial_de(P_expr, Q_expr) ==
    LET f_pot == f_pot_de(P_expr, Q_expr)
    IN  IF potencial_raises(f_pot) THEN None ELSE Some(f_pot)

\* the potential is recovered without looking at the curl test
potencial_fn_siempre(es_conservativo, P_expr, Q_expr) ==
    potencial_de(P_expr, Q_expr)

\* lines 38-61: potencial_fn, None unless the field is conservative
potencial_fn(es_conservativo, P_expr, Q_expr) ==
    IF es_conservativo THEN potencial_de(P_expr, Q_expr) ELSE None

\* lines 28-36: the validation of P and Q at the origin passes (no exception)
validacion_ok(P_expr, Q_expr) ==
    LET pv == eval_origin(P_expr)
        qv == eval_origin(Q_expr)
    IN  float_ok(pv) /\ float_ok(qv)

crear_campo(nombre, P_expr, Q_expr) ==
    LET F_sym == <<P_expr, Q_expr>>
        curl == simplify(curl_2d(F_sym))
        es_conservativo == (curl = ExprZero)
    IN  IF ~validacion_ok(P_expr, Q_expr)
        THEN [raise |-> TRUE, error |-> "ValueError"]
        ELSE [raise |-> FALSE,
              nombre |-> nombre,
              campo |-> [sym |-> F_sym,
                         np |-> "F_np",
                         conservativo |-> es_conservativo,
                         curl |-> curl,
                         potencial |->
                             potencial_fn(es_conservativo, P_expr, Q_expr)]]

\* f1 = x**2 + y**2
f1 == PAdd(PMono(2, 0, 1), PMono(0, 2, 1))

F1_sym == <<ExprPoly(PDiffX(f1)), ExprPoly(PDiffY(f1))>>

F2_sym == <<ExprPoly(PMono(0, 1, -1)), ExprPoly(PMono(1, 0, 1))>>

CURL_F1 == simplify(curl_2d(F1_sym))

CURL_F2 == simplify(curl_2d(F2_sym))

NombreF1 == "Conservativo: F1(x,y) = (2x, 2y)"

NombreF2 == "No conservativo: F2(x,y) = (-y, x)"

\* the module-level dictionary FIELDS
FIELDS_inicial ==
    [k \in {NombreF1, NombreF2} |->
        IF k = NombreF1
        THEN [sym |-> F1_sym,
              np |-> "campo_conservativo",
              conservativo |-> TRUE,
              curl |-> CURL_F1,
              potencial |-> Some(ExprPoly(f1))]
        ELSE [sym |-> F2_sym,
              np |-> "campo_rotacional",
              conservativo |-> FALSE,
              curl |-> CURL_F2,
              potencial |-> None]]

-----------------------------------------------------------------------------
(* app.py: the sidebar editor of user-defined fields.                      *)

\* the texts typed into "Nombre del campo", "P(x,y) =" and "Q(x,y) ="
Nombres == {"Campo personalizado"}

TextosP == {"2*x", "-y", "1", "1/x", "log(x)", "1/(x-1)", "exp(x**2)", "2*x+"}

TextosQ == {"-y", "x", "0", "log(x)", "x+"}

\* sp.sympify(text, {"x": x, "y": y, "e": sp.E, "pi": sp.pi})
sympify(text) ==
    LET ok(e) == [raise |-> FALSE, expr |-> e]
    IN  CASE text = "2*x"       -> ok(ExprPoly(PMono(1, 0, 2)))
          [] text = "x"         -> ok(ExprPoly(PMono(1, 0, 1)))
          [] text = "y"         -> ok(ExprPoly(PMono(0, 1, 1)))
          [] text = "-y"        -> ok(ExprPoly(PMono(0, 1, -1)))
          [] text = "2*y"       -> ok(ExprPoly(PMono(0, 1, 2)))
          [] text = "0"         -> ok(ExprZero)
          [] text = "1"         -> ok(ExprPoly(PMono(0, 0, 1)))
          [] text = "1/x"       -> ok(Expr(PZero, "1/x"))
          [] text = "log(x)"    -> ok(Expr(PZero, "log(x)"))
          [] text = "1/(x-1)"   -> ok(Expr(PZero, "1/(x - 1)"))
          [] text = "exp(x**2)" -> ok(Expr(PZero, "exp(x**2)"))
          [] OTHER              -> [raise |-> TRUE, expr |-> ExprZero]

\* the key is the typed name alone
nombre_final_sin_expr(nombre_nuevo, expr_P, expr_Q) == nombre_nuevo

\* f"{nombre_nuevo}: ({expr_P}, {expr_Q})"
nombre_final(nombre_nuevo, expr_P, expr_Q) ==
    nombre_nuevo \o ": (" \o expr_P \o ", " \o expr_Q \o ")"

\* FIELDS[nombre] = campo
Asignar(F, nombre, campo) ==
    [k \in DOMAIN F \cup {nombre} |-> IF k = nombre THEN campo ELSE F[k]]

\* the entries of the registry that are not built in
CamposUsuario(F) == DOMAIN F \ {NombreF1, NombreF2}

\* the entry is stored before crear_campo has validated it
AnadirCampo_parcial(nombre_nuevo, expr_P, expr_Q) ==
    LET P_expr == sympify(expr_P)
        Q_expr == sympify(expr_Q)
        nombre == nombre_final(nombre_nuevo, expr_P, expr_Q)
        creado == crear_campo(nombre, P_expr.expr, Q_expr.expr)
    IN  IF P_expr.raise \/ Q_expr.raise
        THEN /\ mensaje' = "error"
             /\ sobrescribe' = FALSE
             /\ UNCHANGED <<FIELDS, pc, vars_trabajo, vars_min, vars_pot>>
        ELSE /\ FIELDS' = Asignar(FIELDS, nombre,
                                  IF creado.raise
                                  THEN [sym |-> <<P_expr.expr, Q_expr.expr>>]
                                  ELSE creado.campo)
             /\ Cardinality(CamposUsuario(FIELDS')) <= MaxCampos
             /\ mensaje' = IF creado.raise THEN "error" ELSE "success"
             /\ sobrescribe' = (nombre \in DOMAIN FIELDS)
             /\ UNCHANGED <<pc, vars_trabajo, vars_min, vars_pot>>

\* a press of "Añadir campo" with the three texts
AnadirCampo(nombre_nuevo, expr_P, expr_Q) ==
    LET P_expr == sympify(expr_P)
        Q_expr == sympify(expr_Q)
        creado == crear_campo(nombre_final(nombre_nuevo, expr_P, expr_Q),
                              P_expr.expr, Q_expr.expr)
    IN  IF P_expr.raise \/ Q_expr.raise \/ creado.raise
        THEN /\ mensaje' = "error"
             /\ sobrescribe' = FALSE
             /\ UNCHANGED <<FIELDS, pc, vars_trabajo, vars_min, vars_pot>>
        ELSE /\ FIELDS' = Asignar(FIELDS, creado.nombre, creado.campo)
             /\ Cardinality(CamposUsuario(FIELDS')) <= MaxCampos
             /\ mensaje' = "success"
             /\ sobrescribe' = (creado.nombre \in DOMAIN FIELDS)
             /\ UNCHANGED <<pc, vars_trabajo, vars_min, vars_pot>>

\* a rerun of the script without the button pressed: no message is shown
Rerun ==
    /\ mensaje # "none"
    /\ mensaje' = "none"
    /\ sobrescribe' = FALSE
    /\ UNCHANGED <<FIELDS, pc, vars_trabajo, vars_min, vars_pot>>

-----------------------------------------------------------------------------
(* The shape of what a field evaluator returns.                            *)

\* the shapes S of the point arrays xy of shape S + (2,): a list of n points
\* and an n by n grid
Formas == {<<n>> : n \in 0..MaxN} \cup {<<n, n>> : n \in 1..MaxN}

\* the shape of P_l(X, Y) for X and Y of shape S: an expression without x
\* and y compiles to a function that returns a Python number
forma_lambdify(e, S) == IF DependsOnXY(e) THEN S ELSE <<>>

\* np.stack((p, q), axis=-1): ValueError unless the shapes are equal
np_stack_forma(s1, s2) ==
    IF s1 = s2
    THEN [raise |-> FALSE, forma |-> s1 \o <<2>>]
    ELSE [raise |-> TRUE, forma |-> <<>>]

\* the shape of campo["np"](xy) for xy of shape S + (2,)
F_np_forma(campo, S) ==
    IF campo.np = "F_np"
    THEN np_stack_forma(forma_lambdify(campo.sym[1], S),
                        forma_lambdify(campo.sym[2], S))
    ELSE [raise |-> FALSE, forma |-> S \o <<2>>]

-----------------------------------------------------------------------------
(* integrales.py: paths and the trapezoidal line integral.  An array of n  *)
(* numbers is a sequence of n rationals, an array of shape (n, 2) a        *)
(* sequence of n pairs.                                                    *)

\* np.linspace(t0, t1, n) for n >= 0: no sample, t0 alone, or n samples
\* t0 + i * (t1 - t0) / (n - 1)
linspace(t0, t1, n) ==
    [i \in 1..n |->
        IF n = 1
        THEN t0
        ELSE RAdd(t0, RMul(RInt(i - 1), RDiv(RSub(t1, t0), RInt(n - 1))))]

\* r(t) of trayectoria_recta(A, B)
trayectoria_recta(A, B, t) ==
    [i \in DOMAIN t |-> <<RAdd(A[1], RMul(RSub(B[1], A[1]), t[i])),
                          RAdd(A[2], RMul(RSub(B[2], A[2]), t[i]))>>]

\* dr(t) of velocidad_recta(A, B)
velocidad_recta(A, B, t) ==
    LET vx == RSub(B[1], A[1])
        vy == RSub(B[2], A[2])
    IN  [i \in DOMAIN t |-> <<vx, vy>>]

\* r(t) of trayectoria_parabolica(A, B)
trayectoria_parabolica(A, B, t) ==
    [i \in DOMAIN t |->
        LET x == RAdd(A[1], RMul(RSub(B[1], A[1]), t[i]))
            y == RAdd(A[2], RMul(RSub(B[2], A[2]), RMul(t[i], t[i])))
        IN  <<x, y>>]

\* dr(t) of velocidad_parabolica(A, B)
velocidad_parabolica(A, B, t) ==
    [i \in DOMAIN t |->
        LET dx == RSub(B[1], A[1])
            dy == RMul(RMul(RSub(B[2], A[2]), RInt(2)), t[i])
        IN  <<dx, dy>>]

\* the weights of the linear and the quadratic term are exchanged:
\* base = a t + (1 - a) t^2
trayectoria_parametrica_invertida(A, B, a, t) ==
    [i \in DOMAIN t |->
        LET x == RAdd(A[1], RMul(RSub(B[1], A[1]), t[i]))
            base == RAdd(RMul(a, t[i]),
                         RMul(RSub(ROne, a), RMul(t[i], t[i])))
            y == RAdd(A[2], RMul(RSub(B[2], A[2]), base))
        IN  <<x, y>>]

\* r(t) of trayectoria_parametrica(A, B, a)
trayectoria_parametrica(A, B, a, t) ==
    [i \in DOMAIN t |->
        LET x == RAdd(A[1], RMul(RSub(B[1], A[1]), t[i]))
            base == RAdd(RMul(RSub(ROne, a), t[i]),
                         RMul(a, RMul(t[i], t[i])))
            y == RAdd(A[2], RMul(RSub(B[2], A[2]), base))
        IN  <<x, y>>]

\* dr(t) of velocidad_parametrica(A, B, a)
velocidad_parametrica(A, B, a, t) ==
    [i \in DOMAIN t |->
        LET dx == RSub(B[1], A[1])
            dbase_dt == RAdd(RSub(ROne, a), RMul(RMul(RInt(2), a), t[i]))
            dy == RMul(RSub(B[2], A[2]), dbase_dt)
        IN  <<dx, dy>>]

\* the pair r, dr_dt the script builds for a path (app.py 107-111), applied
\* to the samples t
r_de(tray, t) ==
    CASE tray.tipo = "recta" -> trayectoria_recta(tray.A, tray.B, t)
      [] tray.tipo = "parabolica" -> trayectoria_parabolica(tray.A, tray.B, t)
      [] tray.tipo = "parametrica" ->
            trayectoria_parametrica(tray.A, tray.B, tray.a, t)

dr_dt_de(tray, t) ==
    CASE tray.tipo = "recta" -> velocidad_recta(tray.A, tray.B, t)
      [] tray.tipo = "parabolica" -> velocidad_parabolica(tray.A, tray.B, t)
      [] tray.tipo = "parametrica" ->
            velocidad_parametrica(tray.A, tray.B, tray.a, t)

\* campo_conservativo(xy) = (2x, 2y)
campo_conservativo(xy) ==
    [i \in DOMAIN xy |-> <<RMul(RInt(2), xy[i][1]), RMul(RInt(2), xy[i][2])>>]

\* the sign of the first component is lost: (y, x)
campo_rotacional_sin_signo(xy) == [i \in DOMAIN xy |-> <<xy[i][2], xy[i][1]>>]

\* campo_rotacional(xy) = (-y, x)
campo_rotacional(xy) == [i \in DOMAIN xy |-> <<RNeg(xy[i][2]), xy[i][1]>>]

RECURSIVE RPow(_, _)
RPow(r, k) == IF k = 0 THEN ROne ELSE RMul(r, RPow(r, k - 1))

\* the value of the polynomial p at the point (x, y), summed over the
\* monomials S
RECURSIVE PEvalSobre(_, _, _, _)
PEvalSobre(p, S, x, y) ==
    IF S = {}
    THEN RZero
    ELSE LET m == CHOOSE k \in S : TRUE
         IN  RAdd(RMul(p[m], RMul(RPow(x, m[1]), RPow(y, m[2]))),
                  PEvalSobre(p, S \ {m}, x, y))

PEval(p, x, y) == PEvalSobre(p, DOMAIN p, x, y)

\* campo["np"](xy) for xy of n points.  The F_np of crear_campo raises when
\* np.stack gets unequal shapes; when P and Q are both constant it returns
\* the pair alone, which F * T broadcasts over the n rows.  The value of a
\* non-polynomial term away from the origin is no rational: the fields of
\* the line integral are polynomial.
campo_np(campo, xy) ==
    CASE campo.np = "campo_conservativo" ->
            [raise |-> FALSE, filas |-> campo_conservativo(xy)]
      [] campo.np = "campo_rotacional" ->
            [raise |-> FALSE, filas |-> campo_rotacional(xy)]
      [] /\ campo.np = "F_np"
         /\ campo.sym[1].atom = NoAtom
         /\ campo.sym[2].atom = NoAtom ->
            IF F_np_forma(campo, <<Len(xy)>>).raise
            THEN [raise |-> TRUE, filas |-> <<>>]
            ELSE [raise |-> FALSE,
                  filas |-> [i \in DOMAIN xy |->
                      <<PEval(campo.sym[1].poly, xy[i][1], xy[i][2]),
                        PEval(campo.sym[2].poly, xy[i][1], xy[i][2])>>]]

\* np.trapz(y, x) from sample i on: the sum of (x[k+1] - x[k]) *
\* (y[k+1] + y[k]) / 2, zero when fewer than two samples are left
RECURSIVE trapz_desde(_, _, _)
trapz_desde(y, x, i) ==
    IF i >= Len(x)
    THEN RZero
    ELSE RAdd(RDiv(RMul(RSub(x[i + 1], x[i]), RAdd(y[i + 1], y[i])), RInt(2)),
              trapz_desde(y, x, i + 1))

np_trapz(y, x) == trapz_desde(y, x, 1)

\* calcular_trabajo(F_np, r, dr_dt, t0, t1, n): what it returns, or that it
\* raised (np.linspace refuses n < 0; F_np may raise)
calcular_trabajo(campo, tray, t0, t1, n) ==
    IF n < 0
    THEN [raise |-> TRUE, val |-> RZero]
    ELSE LET t == linspace(t0, t1, n)
             P == r_de(tray, t)
             T == dr_dt_de(tray, t)
             F == campo_np(campo, P)
             integrando ==
                 [i \in DOMAIN t |->
                     RAdd(RMul(F.filas[i][1], T[i][1]),
                          RMul(F.filas[i][2], T[i][2]))]
         IN  IF F.raise
             THEN [raise |-> TRUE, val |-> RZero]
             ELSE [raise |-> FALSE, val |-> np_trapz(integrando, t)]

-----------------------------------------------------------------------------
(* app.py: the minimum search over the sweep of the parameter a.           *)

\* np.argmin over W[i..]: the best index so far is kept unless a strictly
\* smaller value comes
RECURSIVE argmin_desde(_, _, _)
argmin_desde(Ws, i, mejor) ==
    IF i > Len(Ws)
    THEN mejor
    ELSE argmin_desde(Ws, i + 1, IF RLess(Ws[i], Ws[mejor]) THEN i ELSE mejor)

\* the scan that replaces the best index also on an equal value
RECURSIVE argmin_ultimo_desde(_, _, _)
argmin_ultimo_desde(Ws, i, mejor) ==
    IF i > Len(Ws)
    THEN mejor
    ELSE argmin_ultimo_desde(Ws, i + 1,
                             IF RLess(Ws[mejor], Ws[i]) THEN mejor ELSE i)

np_argmin_ultimo(Ws) == argmin_ultimo_desde(Ws, 2, 1)

\* np.argmin(W_vals) of a non-empty array, counted from 1
np_argmin(Ws) == argmin_desde(Ws, 2, 1)

-----------------------------------------------------------------------------
(* The registry under registration attempts.                               *)

F1 == FIELDS_inicial[NombreF1]

TrabajoEnReposo ==
    /\ arg_F = F1
    /\ arg_tray = [tipo |-> "recta", A |-> <<RZero, RZero>>,
                   B |-> <<ROne, ROne>>, a |-> RZero]
    /\ arg_n = 0
    /\ W = [raise |-> FALSE, val |-> RZero]

MinEnReposo ==
    /\ a_vals = <<>>
    /\ W_vals = <<>>
    /\ idx_min = 0
    /\ a_opt = RZero
    /\ W_opt = RZero

PotEnReposo ==
    /\ g_pot = PZero
    /\ campo_pot = None

Init ==
    /\ pc = "app"
    /\ FIELDS = FIELDS_inicial
    /\ mensaje = "none"
    /\ sobrescribe = FALSE
    /\ TrabajoEnReposo
    /\ MinEnReposo
    /\ PotEnReposo

Next ==
    \/ \E n \in Nombres, p \in TextosP, q \in TextosQ : AnadirCampo(n, p, q)
    \/ Rerun

Spec == Init /\ [][Next]_vars

-----------------------------------------------------------------------------
(* Properties of the registry.                                             *)

\* the monomials at which dQ/dx or dP/dy of the pair has a term
MonomiosCurl(P, Q) ==
    {<<m[1] - 1, m[2]>> : m \in {k \in DOMAIN Q.poly : k[1] > 0}}
        \cup {<<m[1], m[2] - 1>> : m \in {k \in DOMAIN P.poly : k[2] > 0}}

\* the coefficient of x^i y^j in dQ/dx - dP/dy, m = <<i, j>>
CoefCurl(P, Q, m) ==
    RSub(RMul(RInt(m[1] + 1), Coef(Q.poly, <<m[1] + 1, m[2]>>)),
         RMul(RInt(m[2] + 1), Coef(P.poly, <<m[1], m[2] + 1>>)))

\* dQ/dx - dP/dy vanishes: no non-polynomial term of x in Q, and every
\* coefficient is zero
CurlNulo(P, Q) ==
    /\ Q.atom = NoAtom
    /\ \A m \in MonomiosCurl(P, Q) : CoefCurl(P, Q, m) = RZero

\* Claim C1: in every reachable registry a record whose conservativeness
\* flag is false has no potential (potencial is None); a potential is
\* present only in records whose flag is true.
C1_NoConservativoSinPotencial ==
    \A k \in DOMAIN FIELDS :
        /\ ~FIELDS[k].conservativo => FIELDS[k].potencial = None
        /\ FIELDS[k].potencial # None => FIELDS[k].conservativo

\* a registered user field with a non-zero curl, beside the built-in ones
C1_Witness ==
    \E k \in CamposUsuario(FIELDS) :
        /\ ~CurlNulo(FIELDS[k].sym[1], FIELDS[k].sym[2])
        /\ ~FIELDS[k].conservativo

\* the attempt with these texts fails: a text does not parse, or P or Q
\* raises at the origin
IntentoFalla(expr_P, expr_Q) ==
    \/ sympify(expr_P).raise
    \/ sympify(expr_Q).raise
    \/ eval_origin(sympify(expr_P).expr).kind = "raise"
    \/ eval_origin(sympify(expr_Q).expr).kind = "raise"

\* the inputs (name, text of P, text of Q) of the attempts that fail
EntradasQueFallan ==
    {e \in Nombres \X TextosP \X TextosQ : IntentoFalla(e[2], e[3])}

\* Claim C2: a registration attempt that fails with a parse error or an
\* evaluation error at the origin leaves the registry exactly as it was: no
\* entry is added, removed or changed, whatever the registry held.
C2_FalloNoTocaRegistro ==
    [][\A e \in EntradasQueFallan :
          AnadirCampo(e[1], e[2], e[3])
              => (FIELDS' = FIELDS /\ mensaje' = "error")]_vars

\* a failed attempt on a registry that holds user fields
C2_Witness == mensaje = "error" /\ CamposUsuario(FIELDS) # {}

C4_OrigenFinito ==
    \A k \in CamposUsuario(FIELDS) :
        /\ IsFinite(eval_origin(FIELDS[k].sym[1]))
        /\ IsFinite(eval_origin(FIELDS[k].sym[2]))

\* the inputs of the attempts that pass the validation at the origin, have
\* a zero curl and whose potential recovery raises
EntradasRecuperacionFalla ==
    {e \in Nombres \X TextosP \X TextosQ :
        /\ ~IntentoFalla(e[2], e[3])
        /\ CurlNulo(sympify(e[2]).expr, sympify(e[3]).expr)
        /\ potencial_raises(f_pot_de(sympify(e[2]).expr,
                                     sympify(e[3]).expr))}

\* Claim C5: for a conservative field whose P and Q pass the validation at
\* the origin, a failure of the potential recovery does not reach the
\* caller: the registration succeeds with conservativo = TRUE, no potential
\* and the field evaluator in place.
C5_RecuperacionNoPropaga ==
    [][\A e \in EntradasRecuperacionFalla :
          LET P == sympify(e[2]).expr
              Q == sympify(e[3]).expr
              k == nombre_final(e[1], e[2], e[3])
          IN  AnadirCampo(e[1], e[2], e[3])
                  => /\ mensaje' = "success"
                     /\ k \in DOMAIN FIELDS'
                     /\ FIELDS'[k].conservativo
                     /\ FIELDS'[k].potencial = None
                     /\ FIELDS'[k].np = "F_np"
                     /\ FIELDS'[k].sym = <<P, Q>>]_vars

\* a registered conservative field whose potential recovery raised
C5_Witness ==
    \E k \in CamposUsuario(FIELDS) :
        /\ CurlNulo(FIELDS[k].sym[1], FIELDS[k].sym[2])
        /\ potencial_raises(f_pot_de(FIELDS[k].sym[1], FIELDS[k].sym[2]))
        /\ FIELDS[k].conservativo
        /\ FIELDS[k].potencial = None

\* Claim C7: for every record of a successful crear_campo, constant P or Q
\* included, the field evaluator applied to points of shape S + (2,) returns
\* an array of shape S + (2,) and does not raise.
C7_FormaDelCampo ==
    \A k \in DOMAIN FIELDS :
        \A S \in Formas :
            F_np_forma(FIELDS[k], S) = [raise |-> FALSE, forma |-> S \o <<2>>]

\* Claim C8: for every record of the registry the conservativeness flag is
\* true exactly when the stored curl is the zero expression, and the stored
\* curl is dQ/dx - dP/dy of the record's own (P, Q); the built-in F1 has
\* curl 0 and flag true, the built-in F2 has curl 2 and flag false.
C8_FlagSiiCurlNulo ==
    /\ \A k \in DOMAIN FIELDS :
          LET r == FIELDS[k]
              P == r.sym[1]
              Q == r.sym[2]
          IN  /\ r.conservativo <=> (r.curl = ExprZero)
              /\ (r.curl = ExprZero) <=> CurlNulo(P, Q)
              /\ \A m \in MonomiosCurl(P, Q) \cup DOMAIN r.curl.poly :
                    Coef(r.curl.poly, m) = CoefCurl(P, Q, m)
    /\ FIELDS[NombreF1].curl = ExprZero
    /\ FIELDS[NombreF1].conservativo
    /\ FIELDS[NombreF2].curl = ExprPoly(PMono(0, 0, 2))
    /\ ~FIELDS[NombreF2].conservativo

\* a registry that holds a conservative and a non-conservative user field
C8_Witness ==
    \E k1, k2 \in CamposUsuario(FIELDS) :
        FIELDS[k1].conservativo /\ ~FIELDS[k2].conservativo

\* Claim C10: when the compiled potential is not finite at the origin (inf
\* or nan, no exception) the record has no potential: no record carries a
\* potential whose value at (0,0) is not finite.
C10_PotencialFinito ==
    \A k \in DOMAIN FIELDS :
        FIELDS[k].potencial # None
            => IsFinite(eval_origin(FIELDS[k].potencial[1]))

-----------------------------------------------------------------------------
(* calcular_trabajo as a function of its arguments.                        *)

RegistroEnReposo ==
    /\ FIELDS = FIELDS_inicial
    /\ mensaje = "none"
    /\ sobrescribe = FALSE

\* the field records a line integral is computed for: the built-in ones and
\* records of crear_campo for polynomial P and Q
CamposTrabajo ==
    {FIELDS_inicial[NombreF1], FIELDS_inicial[NombreF2]}
        \cup {crear_campo(nombre_final("Campo personalizado", pq[1], pq[2]),
                          sympify(pq[1]).expr, sympify(pq[2]).expr).campo :
                 pq \in {<<"2*x", "-y">>, <<"1", "0">>, <<"2*x", "0">>}}

\* the endpoints A and B
Puntos == {<<RZero, RZero>>, <<ROne, ROne>>, <<ROne, RZero>>}

\* the values of the parameter a of the quadratic family
ValoresA == {RInt(-2), RZero, ROne}

Trayectorias ==
    {[tipo |-> tp, A |-> A, B |-> B, a |-> RZero] :
        tp \in {"recta", "parabolica"}, A \in Puntos, B \in Puntos}
    \cup {[tipo |-> "parametrica", A |-> A, B |-> B, a |-> a] :
            A \in Puntos, B \in Puntos, a \in ValoresA}

InitTrabajo ==
    /\ pc = "llamada"
    /\ RegistroEnReposo
    /\ MinEnReposo
    /\ PotEnReposo
    /\ arg_F \in CamposTrabajo
    /\ arg_tray \in Trayectorias
    /\ arg_n \in 0..MaxN
    /\ W = [raise |-> FALSE, val |-> RZero]

\* the call calcular_trabajo(F_np, r, dr_dt, n=arg_n), t0 = 0.0, t1 = 1.0
Calcular ==
    /\ pc = "llamada"
    /\ W' = calcular_trabajo(arg_F, arg_tray, RZero, ROne, arg_n)
    /\ pc' = "retorno"
    /\ UNCHANGED <<vars_reg, vars_min, vars_pot, arg_F, arg_tray, arg_n>>

NextTrabajo == Calcular

SpecTrabajo == InitTrabajo /\ [][NextTrabajo]_vars

\* Claim C6: calcular_trabajo called with n < 2 (n = 1, n = 0) fails with an
\* error; it never returns a number for n < 2.
C6_MuestrasInvalidas == (pc = "retorno" /\ arg_n < 2) => W.raise

\* Claim C12: at every sample t the position of the quadratic family has
\* the x of the straight line and of the parabola between the same
\* endpoints; its y is exactly the y of the straight line when a = 0 and
\* exactly the y of the parabola when a = 1.
C12_FamiliaReproduce ==
    (pc = "retorno" /\ arg_tray.tipo = "parametrica") =>
        LET t == linspace(RZero, ROne, arg_n)
            fam == r_de(arg_tray, t)
            rec == trayectoria_recta(arg_tray.A, arg_tray.B, t)
            par == trayectoria_parabolica(arg_tray.A, arg_tray.B, t)
        IN  \A i \in DOMAIN t :
                /\ fam[i][1] = rec[i][1]
                /\ fam[i][1] = par[i][1]
                /\ arg_tray.a = RZero => fam[i][2] = rec[i][2]
                /\ arg_tray.a = ROne => fam[i][2] = par[i][2]

\* a returned call for the built-in F2 along the straight line from (0,0) to
\* (1,1), given as trayectoria_recta or as the family at a = 0, n >= 2
RectaF2Canonica ==
    /\ pc = "retorno"
    /\ arg_F = FIELDS_inicial[NombreF2]
    /\ arg_tray.A = <<RZero, RZero>>
    /\ arg_tray.B = <<ROne, ROne>>
    /\ \/ arg_tray.tipo = "recta"
       \/ arg_tray.tipo = "parametrica" /\ arg_tray.a = RZero
    /\ arg_n >= 2

\* Claim C13, as stated: the work of F2 = (-y, x) along the straight line
\* from (0,0) to (1,1) is 1.0 for every sample count n >= 2.
C13_TrabajoRectaUno ==
    RectaF2Canonica => (~W.raise /\ W.val = ROne)

\* Claim C13, amended: the work of F2 = (-y, x) along the straight line
\* from (0,0) to (1,1), given as trayectoria_recta or as the family at
\* a = 0, is 0.0 for every sample count n >= 2: the integrand
\* F(r(t)) . r'(t) = -t + t vanishes at every sample.
C13_TrabajoRectaCero ==
    RectaF2Canonica => (~W.raise /\ W.val = RZero)

\* the straight-line work of F2 computed with interior samples
C13_Witness == RectaF2Canonica /\ arg_tray.tipo = "recta" /\ arg_n >= 3

\* the family at a = 1 between endpoints of different height, sampled at a
\* t where the straight line and the parabola differ
C12_Witness ==
    /\ pc = "retorno"
    /\ arg_tray.tipo = "parametrica"
    /\ arg_tray.a = ROne
    /\ arg_tray.A[2] # arg_tray.B[2]
    /\ LET t == linspace(RZero, ROne, arg_n)
       IN  \E i \in DOMAIN t :
               trayectoria_recta(arg_tray.A, arg_tray.B, t)[i][2]
                   # trayectoria_parabolica(arg_tray.A, arg_tray.B, t)[i][2]

-----------------------------------------------------------------------------
(* The search_min block (app.py 147-159).                                  *)

\* the works a sweep may collect
ValoresW == {RInt(-1), RZero, ROne}

InitMin ==
    /\ pc = "barrido"
    /\ RegistroEnReposo
    /\ TrabajoEnReposo
    /\ PotEnReposo
    /\ \E m \in 1..MaxBarrido : a_vals = linspace(RInt(-2), RInt(2), m)
    /\ W_vals = <<>>
    /\ idx_min = 0
    /\ a_opt = RZero
    /\ W_opt = RZero

\* one turn of the loop over a_vals: the work of the path of the next sweep
\* value is appended; any finite work may come
Colectar(w) ==
    /\ pc = "barrido"
    /\ Len(W_vals) < Len(a_vals)
    /\ W_vals' = Append(W_vals, w)
    /\ UNCHANGED <<pc, vars_reg, vars_trabajo, vars_pot,
                   a_vals, idx_min, a_opt, W_opt>>

\* after the loop: idx_min = np.argmin(W_vals), a_opt = a_vals[idx_min],
\* W_opt = W_vals[idx_min]
BuscarMin ==
    /\ pc = "barrido"
    /\ Len(W_vals) = Len(a_vals)
    /\ idx_min' = np_argmin(W_vals)
    /\ a_opt' = a_vals[idx_min']
    /\ W_opt' = W_vals[idx_min']
    /\ pc' = "hecho"
    /\ UNCHANGED <<vars_reg, vars_trabajo, vars_pot, a_vals, W_vals>>

NextMin ==
    \/ \E w \in ValoresW : Colectar(w)
    \/ BuscarMin

SpecMin == InitMin /\ [][NextMin]_vars

\* Claim C9: the minimum search returns (a*, W*) where W* is the minimum of
\* the collected works and a* is the sweep value at the first index that
\* attains it (ties go to the earliest, lowest a).
C9_PrimerMinimo ==
    pc = "hecho" =>
        /\ idx_min \in DOMAIN W_vals
        /\ W_opt = W_vals[idx_min]
        /\ a_opt = a_vals[idx_min]
        /\ \A j \in DOMAIN W_vals : ~RLess(W_vals[j], W_opt)
        /\ \A j \in DOMAIN W_vals : j < idx_min => RLess(W_opt, W_vals[j])
        /\ \A j \in DOMAIN W_vals :
              W_vals[j] = W_opt => ~RLess(a_vals[j], a_opt)

\* a finished search whose minimum is attained at two sweep values, the
\* first of them not the first sweep value
C9_Witness ==
    /\ pc = "hecho"
    /\ idx_min > 1
    /\ \E j \in DOMAIN W_vals : j > idx_min /\ W_vals[j] = W_opt

-----------------------------------------------------------------------------
(* Potential recovery on gradient fields: crear_campo on (dg/dx, dg/dy).   *)

\* the monomials x^i y^j of total degree at most MaxGrado
Monomios == {m \in (0..MaxGrado) \X (0..MaxGrado) : m[1] + m[2] <= MaxGrado}

\* the points at which the recovered potential is compared with g
Muestras ==
    {<<RZero, RZero>>, <<RInt(-1), RInt(2)>>, <<RInt(2), RInt(-1)>>,
     <<RInt(2), RInt(2)>>, <<Frac(1, 2), RInt(3)>>}

\* potencial_fn(x, y): the compiled potential at a point; the potential of
\* a polynomial field is a polynomial
potencial_en(f_pot, x, y) ==
    CASE f_pot.atom = NoAtom -> PEval(f_pot.poly, x, y)

\* g is any polynomial of at most MaxTerminos terms
InitPot ==
    /\ pc = "gradiente"
    /\ RegistroEnReposo
    /\ TrabajoEnReposo
    /\ MinEnReposo
    /\ \E S \in {T \in SUBSET Monomios : Cardinality(T) <= MaxTerminos} :
           \E c \in [S -> {RInt(k) : k \in (-MaxCoef)..MaxCoef}] :
               g_pot = PMake(c)
    /\ campo_pot = None

\* crear_campo(nombre, dg/dx, dg/dy)
Recuperar ==
    /\ pc = "gradiente"
    /\ campo_pot' = Some(crear_campo("grad g", ExprPoly(PDiffX(g_pot)),
                                     ExprPoly(PDiffY(g_pot))))
    /\ pc' = "recuperado"
    /\ UNCHANGED <<vars_reg, vars_trabajo, vars_min, g_pot>>

NextPot == Recuperar

SpecPot == InitPot /\ [][NextPot]_vars

\* Claim C11: for every field (dg/dx, dg/dy) built as the gradient of a
\* polynomial potential g, crear_campo succeeds, finds the field
\* conservative and returns a potential f that equals g up to an additive
\* constant: f - g has the same value at every sample point.
C11_PotencialIdaYVuelta ==
    pc = "recuperado" =>
        LET res == campo_pot[1]
        IN  /\ ~res.raise
            /\ res.campo.conservativo
            /\ res.campo.potencial # None
            /\ \E k \in {RSub(potencial_en(res.campo.potencial[1],
                                         RZero, RZero),
                            PEval(g_pot, RZero, RZero))} :
                  \A p \in Muestras :
                      RSub(potencial_en(res.campo.potencial[1], p[1], p[2]),
                           PEval(g_pot, p[1], p[2])) = k

\* a potential recovered for a g with a mixed term, a term of y alone and a
\* constant term, so that the residual in y is not zero and f differs from g
C11_Witness ==
    /\ pc = "recuperado"
    /\ Coef(g_pot, <<1, 1>>) # RZero
    /\ Coef(g_pot, <<0, 2>>) # RZero
    /\ Coef(g_pot, <<0, 0>>) # RZero
    /\ ~campo_pot[1].raise
    /\ campo_pot[1].campo.potencial # None
    /\ campo_pot[1].campo.potencial[1] # ExprPoly(g_pot)

=============================================================================
